---- MODULE Spec2Model ----
(***************************************************************************)
(* Model of the AI Portfolio Builder backend (src/main.py).                *)
(*                                                                         *)
(* Two parts share the module:                                             *)
(*   - the portfolio persistence handlers (save_portfolio, get_portfolio,  *)
(*     public_portfolio) running as concurrent requests over the           *)
(*     "portfolio" collection, one store round trip per step;              *)
(*   - the generation handlers (call_llm, generate_portfolio, ai_suggest), *)
(*     which are pure functions of the request and of what the external    *)
(*     provider answers.                                                   *)
(***************************************************************************)
EXTENDS Integers, Sequences, FiniteSets, TLC

VARIABLES
    store,    \* the "portfolio" collection: documents in insertion order
    nextId,   \* the next _id the store hands out
    pc,       \* pc[p]: position of request p in its handler
    req,      \* req[p]: the request p is serving
    exists,   \* exists[p]: the local `exists` of save_portfolio
    result,   \* result[p]: the response of request p
    faulted,  \* history: a store call has raised in this run
    gpc,      \* position of the generation request
    gin,      \* the generation request and the provider's answers to it
    gout      \* the response of the generation request

vars == <<store, nextId, pc, req, exists, result, faulted, gpc, gin, gout>>
pvars == <<store, nextId, pc, req, exists, result, faulted>>
gvars == <<gpc, gin, gout>>

(***************************************************************************)
(* Bounds                                                                  *)
(***************************************************************************)
NumProcs == 3
Procs == 1..NumProcs
Usernames == {"alice", "bob"}
PortfolioNames == {"v1", "v2"}

NoReq == [op |-> "none", username |-> "", name |-> ""]
NoResult == [status |-> 0, id |-> 0, doc |-> <<>>]

(***************************************************************************)
(* Document store adapter (database.py) and the pymongo collection         *)
(***************************************************************************)
\* get_documents("portfolio", {"username": u}): the matches, in insertion order
get_documents(docs, u) == SelectSeq(docs, LAMBDA d : d.username = u)

\* create_document("portfolio", data): appends the document under a fresh id
create_document(docs, id, data) ==
    Append(docs, [oid |-> id, username |-> data.username, name |-> data.name])

DeleteAll(docs, u) == <<>>

\* db.portfolio.delete_many({"username": payload.username})
delete_many(docs, u) == SelectSeq(docs, LAMBDA d : d.username # u)

\* payload.model_dump(): the request's fields as a document
model_dump(r) == [username |-> r.username, name |-> r.name]

\* doc["_id"] = str(doc.get("_id")): the ObjectId is replaced by its string
StrId(d) == [str_id |-> d.oid, username |-> d.username, name |-> d.name]

FirstDoc(docs) == <<StrId(docs[1])>>

\* docs[-1] with its _id coerced
LastDoc(docs) == <<StrId(docs[Len(docs)])>>

\* get_portfolio(username): 404 when nothing matches, else the last match
get_portfolio(docs, u) ==
    LET found == get_documents(docs, u)
    IN  IF found = <<>>
        THEN [status |-> 404, id |-> 0, doc |-> <<>>]
        ELSE [status |-> 200, id |-> 0, doc |-> LastDoc(found)]

\* public_portfolio(username): return get_portfolio(username)
public_portfolio(docs, u) == get_portfolio(docs, u)

(***************************************************************************)
(* Text: a string is the sequence of its characters. "U+2022" stands for   *)
(* the one character BULLET, which the module's character set cannot spell.*)
(***************************************************************************)
Bullet == "U+2022"

\* the characters str.strip() removes (the ASCII ones)
Whitespace == {" ", "\t", "\n", "\r", "\f"}

\* the characters of the argument of s.strip("- U+2022 ")
BulletChars == {"-", " ", Bullet}

MaxOf(S) == CHOOSE x \in S : \A y \in S : y <= x

MinOf(S) == CHOOSE x \in S : \A y \in S : x <= y

\* s.strip(chars): s without its leading and trailing characters of D
StripSet(s, D) ==
    LET keep == {i \in 1..Len(s) : s[i] \notin D}
    IN  IF keep = {} THEN <<>> ELSE SubSeq(s, MinOf(keep), MaxOf(keep))

\* s.strip()
PyStrip(s) == StripSet(s, Whitespace)

\* s[:n]
Take(s, n) == SubSeq(s, 1, IF Len(s) < n THEN Len(s) ELSE n)

\* the positions where sep occurs in s
Occurrences(s, sep) ==
    {i \in 1..(Len(s) - Len(sep) + 1) : SubSeq(s, i, i + Len(sep) - 1) = sep}

\* s.split(sep): the pieces between the occurrences of sep, found left to
\* right without overlap
RECURSIVE PySplit(_, _)
PySplit(s, sep) ==
    IF Occurrences(s, sep) = {}
    THEN <<s>>
    ELSE LET i == MinOf(Occurrences(s, sep))
         IN  <<SubSeq(s, 1, i - 1)>> \o PySplit(SubSeq(s, i + Len(sep), Len(s)), sep)

\* s.rsplit(sep, 1)[0]: the text before the last occurrence of sep
BeforeLast(s, sep) ==
    IF Occurrences(s, sep) = {}
    THEN s
    ELSE SubSeq(s, 1, MaxOf(Occurrences(s, sep)) - 1)

\* sep.join(parts)
RECURSIVE PyJoin(_, _)
PyJoin(sep, parts) ==
    IF parts = <<>> THEN <<>>
    ELSE IF Len(parts) = 1 THEN parts[1]
    ELSE parts[1] \o sep \o PyJoin(sep, Tail(parts))

\* the locally crafted summary call_llm returns when no provider is configured
FallbackDraft ==
    <<"P", "r", "o", "f", "e", "s", "s", "i", "o", "n", "a", "l", ",", " ",
      "i", "m", "p", "a", "c", "t", "-", "d", "r", "i", "v", "e", "n", " ",
      "c", "a", "n", "d", "i", "d", "a", "t", "e", ".", " ", "B", "l", "e",
      "n", "d", "s", " ", "t", "e", "c", "h", "n", "i", "c", "a", "l", " ",
      "d", "e", "p", "t", "h", " ", "w", "i", "t", "h", " ", "c", "l", "e",
      "a", "r", " ", "c", "o", "m", "m", "u", "n", "i", "c", "a", "t", "i",
      "o", "n", ",", " ", "d", "r", "i", "v", "e", "s", " ", "o", "u", "t",
      "c", "o", "m", "e", "s", " ", "t", "h", "r", "o", "u", "g", "h", " ",
      "p", "r", "o", "j", "e", "c", "t", "s", ",", " ", "i", "n", "t", "e",
      "r", "n", "s", "h", "i", "p", "s", ",", " ", "a", "n", "d", " ", "c",
      "o", "m", "m", "u", "n", "i", "t", "y", " ", "w", "o", "r", "k", ".",
      " ", "V", "a", "l", "u", "e", "s", " ", "c", "l", "a", "r", "i", "t",
      "y", ",", " ", "c", "o", "l", "l", "a", "b", "o", "r", "a", "t", "i",
      "o", "n", ",", " ", "a", "n", "d", " ", "c", "o", "n", "t", "i", "n",
      "u", "o", "u", "s", " ", "l", "e", "a", "r", "n", "i", "n", "g", ".">>

UnavailablePrefix ==
    <<"D", "r", "a", "f", "t", " ", "(", "A", "I", " ", "s", "e", "r", "v",
      "i", "c", "e", " ", "u", "n", "a", "v", "a", "i", "l", "a", "b", "l",
      "e", ")", ":", " ">>

ErrorPrefix ==
    <<"D", "r", "a", "f", "t", " ", "(", "A", "I", " ", "e", "r", "r", "o",
      "r", ")", ":", " ">>

Ellipsis ==
    <<".", ".", ".">>

\* the fixed prompt of the suggestions call
suggestions_prompt ==
    <<"G", "i", "v", "e", "n", " ", "t", "h", "e", " ", "u", "s", "e", "r",
      "'", "s", " ", "i", "n", "p", "u", "t", "s", " ", "(", "s", "k", "i",
      "l", "l", "s", ",", " ", "p", "r", "o", "j", "e", "c", "t", "s", ",",
      " ", "e", "x", "p", "e", "r", "i", "e", "n", "c", "e", ",", " ", "e",
      "d", "u", "c", "a", "t", "i", "o", "n", ")", ",", " ", "s", "u", "g",
      "g", "e", "s", "t", " ", "5", " ", "c", "o", "n", "c", "i", "s", "e",
      " ", "i", "m", "p", "r", "o", "v", "e", "m", "e", "n", "t", "s", " ",
      "t", "h", "a", "t", " ", "s", "t", "r", "e", "n", "g", "t", "h", "e",
      "n", " ", "c", "l", "a", "r", "i", "t", "y", ",", " ", "i", "m", "p",
      "a", "c", "t", ",", " ", "a", "n", "d", " ", "A", "T", "S", " ", "r",
      "e", "a", "d", "i", "n", "e", "s", "s", ".", " ", "U", "s", "e", " ",
      "i", "m", "p", "e", "r", "a", "t", "i", "v", "e", " ", "t", "o", "n",
      "e", ".">>

SummaryHead ==
    <<"W", "r", "i", "t", "e", " ", "a", " ">>

SummaryFor ==
    <<" ", "3", "-", "4", " ", "s", "e", "n", "t", "e", "n", "c", "e", " ",
      "p", "r", "o", "f", "e", "s", "s", "i", "o", "n", "a", "l", " ", "s",
      "u", "m", "m", "a", "r", "y", " ", "f", "o", "r", " ">>

SummarySkills ==
    <<".", " ", "H", "i", "g", "h", "l", "i", "g", "h", "t", " ", "s", "t",
      "r", "e", "n", "g", "t", "h", "s", " ", "f", "r", "o", "m", " ", "s",
      "k", "i", "l", "l", "s", ":", " ">>

SummaryTail ==
    <<".", " ", "A", "u", "d", "i", "e", "n", "c", "e", ":", " ", "r", "e",
      "c", "r", "u", "i", "t", "e", "r", "s", " ", "a", "n", "d", " ", "h",
      "i", "r", "i", "n", "g", " ", "m", "a", "n", "a", "g", "e", "r", "s",
      ".">>

SkillsPlaceholder ==
    <<"(", "s", "k", "i", "l", "l", "s", " ", "n", "o", "t", " ", "p", "r",
      "o", "v", "i", "d", "e", "d", ")">>

SuggestHead ==
    <<"I", "m", "p", "r", "o", "v", "e", " ", "t", "h", "e", " ", "f", "o",
      "l", "l", "o", "w", "i", "n", "g", " ", "t", "e", "x", "t", " ", "f",
      "o", "r", " ">>

SuggestTail ==
    <<" ", "t", "o", "n", "e", ".", " ", "K", "e", "e", "p", " ", "i", "t",
      " ", "c", "o", "n", "c", "i", "s", "e", ",", " ", "c", "l", "e", "a",
      "r", ",", " ", "a", "n", "d", " ", "a", "c", "t", "i", "o", "n", "-",
      "o", "r", "i", "e", "n", "t", "e", "d", ".", "\n", "\n", "T", "e",
      "x", "t", ":", " ">>

\* the default tone
Professional ==
    <<"p", "r", "o", "f", "e", "s", "s", "i", "o", "n", "a", "l">>

(***************************************************************************)
(* Requests                                                                *)
(***************************************************************************)
PInit ==
    /\ store = <<>>
    /\ nextId = 1
    /\ pc = [p \in Procs |-> "idle"]
    /\ req = [p \in Procs |-> NoReq]
    /\ exists = [p \in Procs |-> <<>>]
    /\ result = [p \in Procs |-> NoResult]
    /\ faulted = FALSE

\* POST /api/portfolio/save arrives
StartSave(p) ==
    /\ pc[p] = "idle"
    /\ \E u \in Usernames, n \in PortfolioNames :
          req' = [req EXCEPT ![p] = [op |-> "save", username |-> u, name |-> n]]
    /\ pc' = [pc EXCEPT ![p] = "query"]
    /\ UNCHANGED <<store, nextId, exists, result, faulted>>

\* GET /api/portfolio/{username} or GET /u/{username} arrives
StartRead(p) ==
    /\ pc[p] = "idle"
    /\ \E u \in Usernames, o \in {"get", "public"} :
          req' = [req EXCEPT ![p] = [op |-> o, username |-> u, name |-> ""]]
    /\ pc' = [pc EXCEPT ![p] = "read"]
    /\ UNCHANGED <<store, nextId, exists, result, faulted>>

\* exists = get_documents("portfolio", {"username": payload.username})
SaveQuery(p) ==
    /\ pc[p] = "query"
    /\ exists' = [exists EXCEPT ![p] = get_documents(store, req[p].username)]
    /\ pc' = [pc EXCEPT ![p] =
                 IF get_documents(store, req[p].username) # <<>>
                 THEN "delete" ELSE "insert"]
    /\ UNCHANGED <<store, nextId, req, result, faulted>>

\* if exists: db.portfolio.delete_many(...)
SaveDelete(p) ==
    /\ pc[p] = "delete"
    /\ store' = delete_many(store, req[p].username)
    /\ pc' = [pc EXCEPT ![p] = "insert"]
    /\ UNCHANGED <<nextId, req, exists, result, faulted>>

\* delete_many raises: except Exception: pass
SaveDeleteRaises(p) ==
    /\ pc[p] = "delete"
    /\ faulted' = TRUE
    /\ pc' = [pc EXCEPT ![p] = "insert"]
    /\ UNCHANGED <<store, nextId, req, exists, result>>

\* pid = create_document(...); return {"id": pid, "username": ...}
SaveInsert(p) ==
    /\ pc[p] = "insert"
    /\ store' = create_document(store, nextId, model_dump(req[p]))
    /\ nextId' = nextId + 1
    /\ result' = [result EXCEPT ![p] = [status |-> 200, id |-> nextId, doc |-> <<>>]]
    /\ pc' = [pc EXCEPT ![p] = "done"]
    /\ UNCHANGED <<req, exists, faulted>>

\* create_document raises: the handler has no except, the request fails
SaveInsertRaises(p) ==
    /\ pc[p] = "insert"
    /\ faulted' = TRUE
    /\ result' = [result EXCEPT ![p] = [status |-> 500, id |-> 0, doc |-> <<>>]]
    /\ pc' = [pc EXCEPT ![p] = "done"]
    /\ UNCHANGED <<store, nextId, req, exists>>

\* the body of get_portfolio, directly or through public_portfolio
Read(p) ==
    /\ pc[p] = "read"
    /\ result' = [result EXCEPT ![p] =
                     IF req[p].op = "public"
                     THEN public_portfolio(store, req[p].username)
                     ELSE get_portfolio(store, req[p].username)]
    /\ pc' = [pc EXCEPT ![p] = "done"]
    /\ UNCHANGED <<store, nextId, req, exists, faulted>>

Step(p) ==
    \/ SaveQuery(p)
    \/ SaveDelete(p)
    \/ SaveDeleteRaises(p)
    \/ SaveInsert(p)
    \/ SaveInsertRaises(p)
    \/ Read(p)

Quiet(p) == pc[p] \in {"idle", "done"}

GIdle ==
    /\ gpc = "idle"
    /\ gin = <<>>
    /\ gout = <<>>

Init == PInit /\ GIdle

\* requests are served concurrently: any request may take its next step
Next ==
    \/ \E p \in Procs : StartSave(p) /\ UNCHANGED gvars
    \/ \E p \in Procs : StartRead(p) /\ UNCHANGED gvars
    \/ \E p \in Procs : Step(p) /\ UNCHANGED gvars

Spec == Init /\ [][Next]_vars

\* requests are served one after the other: none starts while one is in flight
SeqNext ==
    \/ \E p \in Procs : (\A q \in Procs : Quiet(q)) /\ StartSave(p) /\ UNCHANGED gvars
    \/ \E p \in Procs : (\A q \in Procs : Quiet(q)) /\ StartRead(p) /\ UNCHANGED gvars
    \/ \E p \in Procs : Step(p) /\ UNCHANGED gvars

SeqSpec == Init /\ [][SeqNext]_vars

(***************************************************************************)
(* The external provider's answer, as far as call_llm looks at it.         *)
(* A JSON value is [t, truthy, chars]: its type, whether Python's `if`     *)
(* takes it as true, and its characters when it is a string.               *)
(***************************************************************************)
VAbsent == [t |-> "absent", truthy |-> FALSE, chars |-> <<>>]
VNull == [t |-> "null", truthy |-> FALSE, chars |-> <<>>]
VZero == [t |-> "num", truthy |-> FALSE, chars |-> <<>>]
VNum == [t |-> "num", truthy |-> TRUE, chars |-> <<>>]
VList == [t |-> "list", truthy |-> TRUE, chars |-> <<>>]
VStr(s) == [t |-> "str", truthy |-> s # <<>>, chars |-> s]

\* the element choices[0]: a mapping (with or without "text") or something else
NoFirst == [t |-> "none", text |-> VAbsent]
FirstDict(v) == [t |-> "dict", text |-> v]
FirstOther == [t |-> "other", text |-> VAbsent]

\* the "choices" field: absent, or a value of some type with its first element
CAbsent == [t |-> "absent", truthy |-> FALSE, first |-> NoFirst]
CEmptyList == [t |-> "list", truthy |-> FALSE, first |-> NoFirst]
CList(f) == [t |-> "list", truthy |-> TRUE, first |-> f]
COther(ty) == [t |-> ty, truthy |-> TRUE, first |-> NoFirst]

NoBody == [t |-> "none", text |-> VAbsent, choices |-> CAbsent]
\* requests.post raises
Raises == [kind |-> "raises", body |-> NoBody]
\* a status that is not 2xx: resp.ok is false
BadStatus == [kind |-> "status", body |-> NoBody]
\* a 2xx answer whose body resp.json() cannot parse
NotJson == [kind |-> "notjson", body |-> NoBody]
\* a 2xx answer with a JSON body that is not a mapping
JsonOther(ty) == [kind |-> "json", body |-> [t |-> ty, text |-> VAbsent, choices |-> CAbsent]]
\* a 2xx answer with a JSON mapping
JsonDict(text, choices) ==
    [kind |-> "json", body |-> [t |-> "dict", text |-> text, choices |-> choices]]

\* f"Draft (AI service unavailable): {prompt[:280]}..."
PromptEcho == 280
DraftUnavailable(prompt) == VStr(UnavailablePrefix \o Take(prompt, PromptEcho) \o Ellipsis)

\* f"Draft (AI error): {prompt[:280]}..."
DraftError(prompt) == VStr(ErrorPrefix \o Take(prompt, PromptEcho) \o Ellipsis)

\* call_llm(prompt): the value the function returns, given whether
\* AI_API_URL and AI_API_KEY are both set and what the provider answers
call_llm(prompt, configured, reply) ==
    IF ~configured THEN VStr(FallbackDraft)
    ELSE IF reply.kind \in {"raises", "notjson"} THEN DraftError(prompt)
    ELSE IF reply.kind = "status" THEN DraftUnavailable(prompt)
    ELSE LET data == reply.body
         IN  IF data.t = "dict" /\ data.text.truthy
             THEN data.text                     \* return data["text"]
             ELSE IF data.t # "dict"
             THEN DraftError(prompt)            \* data.get: AttributeError
             ELSE IF data.choices.truthy
             THEN IF /\ data.choices.t = "list"
                     /\ data.choices.first.t = "dict"
                     /\ data.choices.first.text.t # "absent"
                  THEN data.choices.first.text  \* return data["choices"][0]["text"]
                  ELSE DraftError(prompt)       \* KeyError, TypeError
             ELSE DraftUnavailable(prompt)

(***************************************************************************)
(* generate_portfolio and ai_suggest                                       *)
(***************************************************************************)
NoOutput ==
    [status |-> 0, summary |-> <<>>, skills |-> <<>>, projects |-> <<>>,
     experience |-> <<>>, education |-> <<>>, achievements |-> <<>>,
     contact |-> <<>>, suggestions |-> <<>>, improved |-> <<>>]

Failure(code) == [NoOutput EXCEPT !.status = code]

DashSep == <<" ", "-", " ">>
AtSep == <<" ", "a", "t", " ">>
Newline == <<"\n">>
CommaSep == <<",", " ">>

MaxSuggestions == 5

raw_name(data) == data.name

\* name = data.name.strip()
stripped_name(data) == PyStrip(data.name)

\* ", ".join(data.skills) or "(skills not provided)"
skills_str(data) ==
    IF PyJoin(CommaSep, data.skills) = <<>>
    THEN SkillsPlaceholder
    ELSE PyJoin(CommaSep, data.skills)

summary_prompt(data) ==
    SummaryHead \o data.tone \o SummaryFor \o stripped_name(data)
        \o SummarySkills \o skills_str(data) \o SummaryTail

\* [...][:5]
FirstFive(xs) == SubSeq(xs, 1, IF Len(xs) < MaxSuggestions THEN Len(xs) ELSE MaxSuggestions)

\* [s.strip("- U+2022 ") for s in suggestions_text.split("\n") if s.strip()][:5]
suggestions_of(text) ==
    LET lines == PySplit(text, Newline)
        kept == SelectSeq(lines, LAMBDA s : PyStrip(s) # <<>>)
    IN  FirstFive([i \in 1..Len(kept) |-> StripSet(kept[i], BulletChars)])

title_before_last(p) == BeforeLast(p, DashSep)

\* p.split(" - ")[0]
project_title(p) == PySplit(p, DashSep)[1]

\* e.split(" at ")[0]
experience_role(e) == PySplit(e, AtSep)[1]

\* {"title": ..., "description": p, "impact": ""}
project_struct(p) == [title |-> project_title(p), description |-> p, impact |-> <<>>]

\* {"role": ..., "details": e, "achievements": []}
experience_struct(e) == [role |-> experience_role(e), details |-> e, achievements |-> <<>>]

\* {"program": e, "institution": "", "year": ""}
education_struct(e) == [program |-> e, institution |-> <<>>, year |-> <<>>]

\* generate_portfolio(data): the response, 400 for a blank name, 500 when
\* an exception leaves the handler
generate_portfolio(data) ==
    LET name == stripped_name(data)
        summary == call_llm(summary_prompt(data), data.configured, data.reply1)
        suggestions_text == call_llm(suggestions_prompt, data.configured, data.reply2)
    IN  IF name = <<>> THEN Failure(400)
        \* suggestions_text.split: AttributeError unless a str
        ELSE IF suggestions_text.t # "str" THEN Failure(500)
        \* AIGenerateResult(summary=...): ValidationError unless a str
        ELSE IF summary.t # "str" THEN Failure(500)
        ELSE [status |-> 200,
              summary |-> summary.chars,
              skills |-> data.skills,
              projects |-> [i \in 1..Len(data.projects) |-> project_struct(data.projects[i])],
              experience |-> [i \in 1..Len(data.experience) |-> experience_struct(data.experience[i])],
              education |-> [i \in 1..Len(data.education) |-> education_struct(data.education[i])],
              achievements |-> data.achievements,
              contact |-> <<[email |-> data.contact_email, name |-> name]>>,
              suggestions |-> suggestions_of(suggestions_text.chars),
              improved |-> <<>>]

suggest_prompt(payload) == SuggestHead \o payload.tone \o SuggestTail \o payload.text

\* ai_suggest(payload): {"improved": call_llm(prompt)}
ai_suggest(payload) ==
    [NoOutput EXCEPT
        !.status = 200,
        !.improved = <<call_llm(suggest_prompt(payload), payload.configured, payload.reply1)>>]

(***************************************************************************)
(* Generation requests: the inputs tried                                   *)
(***************************************************************************)
MaxNameLen == 3
MaxProjectLen == 6
MaxExperienceLen == 7
MaxItems == 3
MaxTextLen == 4
MaxLines == 6

Strings(A, n) == UNION {[1..k -> A] : k \in 0..n}
Lists(S, n) == UNION {[1..k -> S] : k \in 0..n}

NameAlphabet == {" ", "\t", "\n", "a"}
ProjectAlphabet == {" ", "-", "a"}
ExperienceAlphabet == {" ", "a", "t"}
TextAlphabet == {"\n", "-", " ", "\t", "a", Bullet}

ProjectItems == {<<"a">>, <<"a", " ", "-", " ", "b">>, <<"a", "-", "b">>}
ExperienceItems == {<<"a">>, <<"a", " ", "a", "t", " ", "b">>, <<"a", "t">>}
LineItems == {<<>>, <<"a">>, <<"-", " ", "a">>}

TextVals == {VAbsent, VNull, VZero, VNum, VList, VStr(<<>>), VStr(<<"o", "k">>)}
FirstVals == {FirstOther} \cup {FirstDict(v) : v \in TextVals}
ChoiceVals ==
    {CAbsent, CEmptyList, COther("str"), COther("num"), COther("dict"),
     [t |-> "null", truthy |-> FALSE, first |-> NoFirst]}
        \cup {CList(f) : f \in FirstVals}

\* everything the provider may answer
ProviderReplies ==
    {Raises, BadStatus, NotJson}
        \cup {JsonOther(ty) : ty \in {"list", "str", "num", "null"}}
        \cup {JsonDict(t, c) : t \in TextVals, c \in ChoiceVals}

TextReply(s) == JsonDict(VStr(s), CAbsent)
GoodReply == TextReply(<<"o", "k">>)

DefaultInput ==
    [op |-> "generate", name |-> <<"a">>, skills |-> <<>>, education |-> <<>>,
     projects |-> <<>>, experience |-> <<>>, achievements |-> <<>>,
     contact_email |-> <<>>, tone |-> Professional, text |-> <<>>,
     configured |-> TRUE, reply1 |-> GoodReply, reply2 |-> GoodReply]

NameInputs ==
    {[DefaultInput EXCEPT !.name = n, !.configured = c] :
        n \in Strings(NameAlphabet, MaxNameLen), c \in BOOLEAN}

ProjectInputs ==
    {[DefaultInput EXCEPT !.projects = <<q>>] : q \in Strings(ProjectAlphabet, MaxProjectLen)}
        \cup {[DefaultInput EXCEPT !.projects = l] : l \in Lists(ProjectItems, MaxItems)}

ExperienceInputs ==
    {[DefaultInput EXCEPT !.experience = <<e>>] :
        e \in Strings(ExperienceAlphabet, MaxExperienceLen)}
        \cup {[DefaultInput EXCEPT !.experience = l] : l \in Lists(ExperienceItems, MaxItems)}

EchoInputs ==
    {[DefaultInput EXCEPT !.skills = k, !.achievements = k, !.education = k,
                          !.contact_email = m] :
        k \in Lists({<<"g", "o">>, <<"c">>}, 2), m \in {<<>>, <<"a", "@", "b">>}}

ProviderInputs ==
    {[DefaultInput EXCEPT !.reply1 = r, !.reply2 = q, !.configured = c] :
        r \in ProviderReplies, q \in {GoodReply, BadStatus}, c \in BOOLEAN}
        \cup {[DefaultInput EXCEPT !.reply1 = q, !.reply2 = r] :
                r \in ProviderReplies, q \in {GoodReply, Raises}}

SuggestionInputs ==
    {[DefaultInput EXCEPT !.reply2 = TextReply(t)] : t \in Strings(TextAlphabet, MaxTextLen)}
        \cup {[DefaultInput EXCEPT !.reply2 = JsonDict(VAbsent, CList(FirstDict(VStr(PyJoin(Newline, l)))))] :
                l \in Lists(LineItems, MaxLines)}

GenerateInputs ==
    NameInputs \cup ProjectInputs \cup ExperienceInputs \cup EchoInputs
        \cup ProviderInputs \cup SuggestionInputs

SuggestInputs ==
    {[DefaultInput EXCEPT !.op = "suggest", !.text = t, !.reply1 = r, !.configured = c] :
        t \in {<<>>, <<"h", "i">>}, r \in ProviderReplies, c \in BOOLEAN}

\* POST /api/generate
Generate(data) ==
    /\ gpc = "idle"
    /\ gin' = data
    /\ gout' = generate_portfolio(data)
    /\ gpc' = "done"
    /\ UNCHANGED pvars

\* POST /api/suggest
Suggest(payload) ==
    /\ gpc = "idle"
    /\ gin' = payload
    /\ gout' = ai_suggest(payload)
    /\ gpc' = "done"
    /\ UNCHANGED pvars

GenNext ==
    \/ \E data \in GenerateInputs : Generate(data)
    \/ \E payload \in SuggestInputs : Suggest(payload)

GenSpec == Init /\ [][GenNext]_vars

(***************************************************************************)
(* Persistence claims                                                      *)
(***************************************************************************)
SavedOk(p, u) ==
    /\ pc[p] = "done"
    /\ req[p].op = "save"
    /\ req[p].username = u
    /\ result[p].status = 200

SavingOn(p, u) == req[p].op = "save" /\ req[p].username = u

Matches(docs, u) == {i \in 1..Len(docs) : docs[i].username = u}

\* C1: once two save_portfolio calls for the same username have both
\* completed, whatever the interleaving of their query, delete and insert
\* steps, the store holds exactly one document for that username.
C1_OneDocAfterTwoSaves ==
    \A u \in Usernames : \A p, q \in Procs :
        ( /\ p # q
          /\ SavedOk(p, u)
          /\ SavedOk(q, u)
          /\ \A r \in Procs \ {p, q} : ~SavingOn(r, u)
          /\ ~faulted )
        => Len(get_documents(store, u)) = 1

\* C2: with requests served one after the other, when the second of two
\* saves for a username has completed the store holds exactly one document
\* for it, get_portfolio returns the second save's data, and the document
\* of the first save is gone.
C2_SecondSaveReplacesFirst ==
    \A u \in Usernames : \A p, q \in Procs :
        ( /\ SavedOk(p, u)
          /\ SavedOk(q, u)
          /\ result[q].id < result[p].id
          /\ \A r \in Procs \ {p, q} : ~SavingOn(r, u) )
        => /\ Len(get_documents(store, u)) = 1
           /\ get_portfolio(store, u).status = 200
           /\ get_portfolio(store, u).doc =
                 <<[str_id |-> result[p].id, username |-> u, name |-> req[p].name]>>
           /\ \A i \in 1..Len(store) : store[i].oid # result[q].id

\* C3: a read answers 404 exactly when no stored document has the requested
\* username, and otherwise answers the last such document in insertion
\* order; /u/{username} answers as /api/portfolio/{username} does.
C3_ReadOutcome ==
    [][\A p \in Procs :
          (pc[p] = "read" /\ pc'[p] = "done") =>
             LET m == Matches(store, req[p].username)
             IN  /\ (result'[p].status = 404) <=> (m = {})
                 /\ m # {} =>
                       /\ result'[p].status = 200
                       /\ result'[p].doc = <<StrId(store[MaxOf(m)])>>]_vars

C3_Witness ==
    \E p \in Procs :
        /\ pc[p] = "done"
        /\ req[p].op = "public"
        /\ result[p].status = 200
        /\ Len(get_documents(store, req[p].username)) >= 2
        /\ result[p].doc = LastDoc(get_documents(store, req[p].username))

\* C8: once a save for a username has completed, every later read of that
\* username succeeds, also a read that runs between the steps of a later
\* save for the same username.
C8_ReadAfterSaveSucceeds ==
    [][\A r \in Procs :
          ( /\ pc[r] = "read"
            /\ pc'[r] = "done"
            /\ \E p \in Procs : SavedOk(p, req[r].username) )
          => result'[r].status # 404]_vars

\* C9: when the insert step of save_portfolio raises, the documents stored
\* for that username are the ones the call found when it started, and
\* get_portfolio still returns the portfolio saved before.
C9_FailedSaveLeavesStore ==
    [][\A p \in Procs :
          (pc[p] = "insert" /\ pc'[p] = "done" /\ result'[p].status = 500)
          => /\ get_documents(store', req[p].username) = exists[p]
             /\ exists[p] # <<>> =>
                   get_portfolio(store', req[p].username).doc = LastDoc(exists[p])]_vars

\* C10: a step of a save for username u leaves the documents of every other
\* username as they were, and a read changes no document: the documents of
\* a username change only in a step of a save for that username.
C10_Frame ==
    [][\A v \in Usernames :
          get_documents(store', v) # get_documents(store, v)
          => \E p \in Procs : /\ SavingOn(p, v)
                              /\ pc[p] \in {"delete", "insert"}
                              /\ pc'[p] # pc[p]]_vars

C10_Witness ==
    \E p \in Procs :
        /\ req[p].op = "save"
        /\ pc[p] = "insert"
        /\ exists[p] # <<>>
        /\ get_documents(store, req[p].username) = <<>>
        /\ \E i \in 1..Len(store) : store[i].username # req[p].username

(***************************************************************************)
(* Generation claims                                                       *)
(***************************************************************************)
Generated == gpc = "done" /\ gin.op = "generate"

Blank(s) == \A i \in 1..Len(s) : s[i] \in Whitespace

OccursAt(s, sep, i) ==
    /\ i + Len(sep) - 1 <= Len(s)
    /\ \A k \in 1..Len(sep) : s[i + k - 1] = sep[k]

\* t is the text of s before the first occurrence of sep, all of s when
\* sep does not occur
TextBefore(t, s, sep) ==
    \/ /\ t = s
       /\ \A i \in 1..Len(s) : ~OccursAt(s, sep, i)
    \/ /\ Len(t) < Len(s)
       /\ \A k \in 1..Len(t) : t[k] = s[k]
       /\ OccursAt(s, sep, Len(t) + 1)
       /\ \A i \in 1..Len(t) : ~OccursAt(s, sep, i)

\* C4: whatever the provider answers (or when none is configured),
\* generate_portfolio with a non-blank name and ai_suggest answer 200; no
\* provider failure or malformed answer fails the request.
C4_ProviderNeverFailsRequest ==
    gpc = "done" =>
        /\ gin.op = "suggest" => gout.status = 200
        /\ (gin.op = "generate" /\ ~Blank(gin.name)) => gout.status = 200

\* C5: the suggestions of generate_portfolio are at most 5, none is empty,
\* and none starts with a dash or a bullet, also not after leading
\* whitespace such as a tab.
C5_SuggestionsClean ==
    (Generated /\ gout.status = 200) =>
        /\ Len(gout.suggestions) <= 5
        /\ \A i \in 1..Len(gout.suggestions) :
              LET e == gout.suggestions[i]
                  body == PyStrip(e)
              IN  /\ e # <<>>
                  /\ e[1] \notin {"-", Bullet}
                  /\ body # <<>> => body[1] \notin {"-", Bullet}

\* C6: generate_portfolio answers 400, with no result, exactly when the
\* name is empty or consists of whitespace only.
C6_BlankNameRejected ==
    Generated =>
        /\ (gout.status = 400) <=> Blank(gin.name)
        /\ gout.status = 400 => gout = Failure(400)

C6_Witness ==
    /\ Generated
    /\ gin.name = <<" ", "\t">>
    /\ gout.status = 400

\* C7: each project string p becomes {title: the text of p before its first
\* " - " (all of p when there is none), description: p, impact: ""}, each
\* experience string e becomes {role: the text of e before its first " at "
\* (all of e when there is none), details: e, achievements: []}, in the
\* order and number of the input lists.
C7_Reshape ==
    (Generated /\ gout.status = 200) =>
        /\ Len(gout.projects) = Len(gin.projects)
        /\ \A i \in 1..Len(gin.projects) :
              /\ TextBefore(gout.projects[i].title, gin.projects[i], DashSep)
              /\ gout.projects[i].description = gin.projects[i]
              /\ gout.projects[i].impact = <<>>
        /\ Len(gout.experience) = Len(gin.experience)
        /\ \A i \in 1..Len(gin.experience) :
              /\ TextBefore(gout.experience[i].role, gin.experience[i], AtSep)
              /\ gout.experience[i].details = gin.experience[i]
              /\ gout.experience[i].achievements = <<>>

C7_Witness ==
    /\ Generated
    /\ gout.status = 200
    /\ Len(gin.projects) = 1
    /\ Cardinality(Occurrences(gin.projects[1], DashSep)) = 2
    /\ gin.projects[1][1] = "a"
    /\ gout.projects[1].title = <<"a">>

====
